---------------------------- MODULE Spec2Model ----------------------------
(***************************************************************************)
(* Shape placement with collision / containment classification.           *)
(*                                                                         *)
(* Three implementations are modelled:                                     *)
(*   main.py      bounding box + SAT + ray-casting containment             *)
(*   v1.py        Manhattan prefilter + bounding circle + bounding box     *)
(*   bounding.py  bounding box only                                        *)
(*                                                                         *)
(* Numbers.  Coordinates are integers (grid positions are multiples of     *)
(* XY_STEP, polygon vertices and stretch factors are integers).  The       *)
(* program's floating point expressions are evaluated here in exact        *)
(* arithmetic:                                                             *)
(*   - a radius sqrt(R) is carried as the integer R (its square), and a    *)
(*     comparison against a sum or difference of radii is decided by       *)
(*     squaring, except where the two sides are equal and the rounding of  *)
(*     the doubles decides (see get_circle_relationship);                  *)
(*   - a normalised axis (x/len, y/len) is carried as the integer vector   *)
(*     together with len^2; projections onto one axis share the positive   *)
(*     factor 1/len, so comparing them compares the integer dot products;  *)
(*   - the quotient in ray_check is compared by cross-multiplication.      *)
(***************************************************************************)
EXTENDS Integers, Sequences, FiniteSets, TLC

VARIABLES
    g_shapes,        \* main.py / v1.py: list of shapes displayed on canvas
    shape,           \* the turtle being placed (candidate), or NoShape
    stretch_factor,  \* min_stretch entered at the prompt
    ret,             \* last result of is_shape_overlapped_any, or NoRet
    pc,              \* control position
    args,            \* inputs of a direct call of a function under test
    out              \* outputs of that call

vars == <<g_shapes, shape, stretch_factor, ret, pc, args, out>>

-----------------------------------------------------------------------------
(* Program constants *)

XY_STEP == 10
MIN_STRETCH == 1
MAX_STRETCH == 10

(* Bounds of the model *)

MaxShapes == 2      \* shapes placed in one run
MaxGrid == 1        \* grid positions per axis in a run: XY_STEP * (0..MaxGrid)
MaxStretch == 2     \* stretch factors drawn from MIN_STRETCH..MaxStretch
PairGrid == 4       \* direct calls on two shapes: second shape at XY_STEP * (0..PairGrid)
MaxCoord == 1       \* direct calls on boxes and circles: coordinates -MaxCoord..MaxCoord
MaxRadius == 2      \* direct calls on circles: radii 0..MaxRadius
TierGrid == 6       \* direct calls of the v1.py tiers: second shape at XY_STEP * (0..TierGrid)
SmallHalf == 1      \* half-width of the small square of the containment example
LargeHalf == 10     \* half-width of the large square of the containment example

NoShape == [id |-> 0]
NoRet == [called |-> FALSE, value |-> FALSE]
Returned(b) == [called |-> TRUE, value |-> b]
NoArgs == [kind |-> "none"]
NoOut == [kind |-> "none"]

-----------------------------------------------------------------------------
(* Small helpers on integers and sequences *)

Abs(n) == IF n < 0 THEN -n ELSE n

Min2(a, b) == IF a <= b THEN a ELSE b

Max2(a, b) == IF a >= b THEN a ELSE b

RECURSIVE SeqMin(_)
SeqMin(s) ==
    IF Len(s) = 1 THEN s[1] ELSE Min2(s[1], SeqMin(Tail(s)))

RECURSIVE SeqMax(_)
SeqMax(s) ==
    IF Len(s) = 1 THEN s[1] ELSE Max2(s[1], SeqMax(Tail(s)))

Xs(poly) == [i \in 1..Len(poly) |-> poly[i][1]]

Ys(poly) == [i \in 1..Len(poly) |-> poly[i][2]]

-----------------------------------------------------------------------------
(* The shape catalogue ("shapes.txt", registered by import_custom_shapes):  *)
(* name -> polygon in local coordinates.                                    *)

ShapeNames == {"square", "small", "triangle"}

ShapeFile ==
    [n \in ShapeNames |->
        CASE n = "square"   -> << <<10, -10>>, <<10, 10>>, <<-10, 10>>, <<-10, -10>> >>
          [] n = "small"    -> << <<5, -5>>, <<5, 5>>, <<-5, 5>>, <<-5, -5>> >>
          [] n = "triangle" -> << <<0, 0>>, <<40, 0>>, <<0, 30>> >>]

(* turtle.Turtle.get_shapepoly(): the shape's polygon transformed by the    *)
(* stretch factors only (shapesize(wid, len): x * wid, y * len).  The       *)
(* turtle's position is not applied.                                        *)
get_shapepoly(s) ==
    LET p == ShapeFile[s.name]
    IN  [i \in 1..Len(p) |-> <<s.stretch_wid * p[i][1], s.stretch_len * p[i][2]>>]

(* The polygon as drawn on the canvas: get_shapepoly moved to the turtle's  *)
(* position (the spec's worldPolygon).                                      *)
worldPolygon(s) ==
    LET p == get_shapepoly(s)
    IN  [i \in 1..Len(p) |-> <<p[i][1] + s.x, p[i][2] + s.y>>]

-----------------------------------------------------------------------------
(* main.py *)

bbox_of(poly) == << <<SeqMin(Xs(poly)), SeqMax(Xs(poly))>>,
                    <<SeqMin(Ys(poly)), SeqMax(Ys(poly))>> >>

box(s) == bbox_of(get_shapepoly(s))

main_box_check(bounding_box1, bounding_box2) ==
    LET x1_min == bounding_box1[1][1]
        x1_max == bounding_box1[1][2]
        y1_min == bounding_box1[2][1]
        y1_max == bounding_box1[2][2]
        x2_min == bounding_box2[1][1]
        x2_max == bounding_box2[1][2]
        y2_min == bounding_box2[2][1]
        y2_max == bounding_box2[2][2]
    IN  ~(x1_max < x2_min \/ x2_max < x1_min \/ y1_max < y2_min \/ y2_max < y1_min)

(* Dot product of a point with an axis, times the axis' length (see Numbers) *)
Projection(point, axis) == point[1] * axis.x + point[2] * axis.y

Projections(poly, axis) == [i \in 1..Len(poly) |-> Projection(poly[i], axis)]

is_separating_axis(poly1, poly2, axis) ==
    LET min1 == SeqMin(Projections(poly1, axis))
        max1 == SeqMax(Projections(poly1, axis))
        min2 == SeqMin(Projections(poly2, axis))
        max2 == SeqMax(Projections(poly2, axis))
    IN  ~(max1 < min2 \/ max2 < min1)

get_edges(poly) ==
    [i \in 1..Len(poly) |-> <<poly[i], poly[(i % Len(poly)) + 1]>>]

(* (x / length, y / length) carried as x, y and length^2; (0, 0) for the     *)
(* zero vector.                                                             *)
normalize(vector) ==
    LET x == vector[1]
        y == vector[2]
        lensq == x * x + y * y
    IN  IF lensq = 0 THEN [x |-> 0, y |-> 0, lensq |-> 1]
        ELSE [x |-> x, y |-> y, lensq |-> lensq]

get_axes(poly) ==
    LET edges == get_edges(poly)
    IN  [i \in 1..Len(edges) |->
            LET p1 == edges[i][1]
                p2 == edges[i][2]
                edge_x == p2[1] - p1[1]
                edge_y == p2[2] - p1[2]
            IN  normalize(<<-edge_y, edge_x>>)]

sat_check(poly1, poly2) ==
    LET axes == get_axes(poly1) \o get_axes(poly2)
    IN  ~(\E i \in 1..Len(axes) : is_separating_axis(poly1, poly2, axes[i]))

(* x <= (y - y1) * (x2 - x1) / (y2 - y1) + x1, for y1 # y2 *)
LeftOfCrossing(x, y, x1, y1, x2, y2) ==
    IF y2 - y1 > 0
    THEN (x - x1) * (y2 - y1) <= (y - y1) * (x2 - x1)
    ELSE (x - x1) * (y2 - y1) >= (y - y1) * (x2 - x1)

RECURSIVE ray_check_from(_, _, _, _)
ray_check_from(point, polygon, i, inside) ==
    IF i > Len(polygon) THEN inside
    ELSE LET x == point[1]
             y == point[2]
             x1 == polygon[i][1]
             y1 == polygon[i][2]
             x2 == polygon[(i % Len(polygon)) + 1][1]
             y2 == polygon[(i % Len(polygon)) + 1][2]
         IN  IF (y1 > y) = (y2 > y)
             THEN ray_check_from(point, polygon, i + 1, inside)
             ELSE IF LeftOfCrossing(x, y, x1, y1, x2, y2)
                  THEN ray_check_from(point, polygon, i + 1, ~inside)
                  ELSE ray_check_from(point, polygon, i + 1, inside)

ray_check(point, polygon) == ray_check_from(point, polygon, 1, FALSE)

contains(poly1, poly2) ==
    \A i \in 1..Len(poly2) : ray_check(poly2[i], poly1)

\* mutant: the gates let a polygon through only when its box is strictly inside
contain_check_strict_gates(poly1, poly2) ==
    LET x1_min == SeqMin(Xs(poly1))
        x1_max == SeqMax(Xs(poly1))
        y1_min == SeqMin(Ys(poly1))
        y1_max == SeqMax(Ys(poly1))
        x2_min == SeqMin(Xs(poly2))
        x2_max == SeqMax(Xs(poly2))
        y2_min == SeqMin(Ys(poly2))
        y2_max == SeqMax(Ys(poly2))
        contain_1to2 ==
            IF x2_min <= x1_min \/ x2_max >= x1_max \/ y2_min <= y1_min \/ y2_max >= y1_max
            THEN FALSE
            ELSE contains(poly1, poly2)
        contain_2to1 ==
            IF x1_min <= x2_min \/ x1_max >= x2_max \/ y1_min <= y2_min \/ y1_max >= y2_max
            THEN FALSE
            ELSE contains(poly2, poly1)
    IN  <<contain_1to2, contain_2to1>>

contain_check(poly1, poly2) ==
    LET x1_min == SeqMin(Xs(poly1))
        x1_max == SeqMax(Xs(poly1))
        y1_min == SeqMin(Ys(poly1))
        y1_max == SeqMax(Ys(poly1))
        x2_min == SeqMin(Xs(poly2))
        x2_max == SeqMax(Xs(poly2))
        y2_min == SeqMin(Ys(poly2))
        y2_max == SeqMax(Ys(poly2))
        contain_1to2 ==
            IF x2_min < x1_min \/ x2_max > x1_max \/ y2_min < y1_min \/ y2_max > y1_max
            THEN FALSE
            ELSE contains(poly1, poly2)
        contain_2to1 ==
            IF x1_min < x2_min \/ x1_max > x2_max \/ y1_min < y2_min \/ y1_max > y2_max
            THEN FALSE
            ELSE contains(poly2, poly1)
    IN  <<contain_1to2, contain_2to1>>

(* One iteration of the loop over shapes: TRUE when the loop returns True   *)
(* at other_shape.                                                          *)
main_pair_collides(shape_poly, shape_bbox, other_shape) ==
    LET other_bbox == box(other_shape)
        other_poly == get_shapepoly(other_shape)
        x1_min == SeqMin(Xs(shape_poly))
        x1_max == SeqMax(Xs(shape_poly))
        y1_min == SeqMin(Ys(shape_poly))
        y1_max == SeqMax(Ys(shape_poly))
        x2_min == SeqMin(Xs(other_poly))
        x2_max == SeqMax(Xs(other_poly))
        y2_min == SeqMin(Ys(other_poly))
        y2_max == SeqMax(Ys(other_poly))
        possible_containment ==
            \/ (x1_min >= x2_min /\ x1_max <= x2_max /\
                y1_min >= y2_min /\ y1_max <= y2_max)
            \/ (x2_min >= x1_min /\ x2_max <= x1_max /\
                y2_min >= y1_min /\ y2_max <= y1_max)
    IN  /\ main_box_check(shape_bbox, other_bbox)
        /\ IF possible_containment
           THEN contains(shape_poly, other_poly) \/ contains(other_poly, shape_poly)
           ELSE sat_check(shape_poly, other_poly)

(* Turtle objects compare by identity: the id field *)
main_is_shape_overlapped_any(s, shapes) ==
    LET shape_poly == get_shapepoly(s)
        shape_bbox == box(s)
    IN  \E i \in 1..Len(shapes) :
            /\ shapes[i].id # s.id
            /\ main_pair_collides(shape_poly, shape_bbox, shapes[i])

-----------------------------------------------------------------------------
(* main.py: the placement run *)

g_range_x == {XY_STEP * i : i \in 0..MaxGrid}

g_range_y == {XY_STEP * i : i \in 0..MaxGrid}

create_shape(id, name, sz_x, sz_y) ==
    [id |-> id, name |-> name, stretch_wid |-> sz_y, stretch_len |-> sz_x,
     x |-> 0, y |-> 0]

goto(s, x, y) == [s EXCEPT !.x = x, !.y = y]

Init ==
    /\ g_shapes = <<>>
    /\ shape = NoShape
    /\ stretch_factor \in MIN_STRETCH..MaxStretch
    /\ ret = NoRet
    /\ pc = "fill"
    /\ args = NoArgs
    /\ out = NoOut

(* fill_canvas_with_random_shapes: one turn of its loop up to the call of   *)
(* place_a_random_shape                                                     *)
FillCanvas ==
    /\ pc = "fill"
    /\ Len(g_shapes) < MaxShapes
    /\ \E name \in ShapeNames :
          shape' = create_shape(Len(g_shapes) + 1, name, stretch_factor, stretch_factor)
    /\ ret' = NoRet
    /\ pc' = "place"
    /\ UNCHANGED <<g_shapes, stretch_factor, args, out>>

\* mutant: the accepted shape is put at the front of the list
PlaceARandomShape_at_front ==
    /\ pc = "place"
    /\ \E x \in g_range_x, y \in g_range_y :
          LET moved == goto(shape, x, y)
              overlapped == main_is_shape_overlapped_any(moved, g_shapes)
          IN  /\ shape' = moved
              /\ ret' = Returned(overlapped)
              /\ IF overlapped = FALSE
                 THEN g_shapes' = <<moved>> \o g_shapes /\ pc' = "fill"
                 ELSE g_shapes' = g_shapes /\ pc' = "place"
    /\ UNCHANGED <<stretch_factor, args, out>>

(* place_a_random_shape: one turn of its loop *)
PlaceARandomShape ==
    /\ pc = "place"
    /\ \E x \in g_range_x, y \in g_range_y :
          LET moved == goto(shape, x, y)
              overlapped == main_is_shape_overlapped_any(moved, g_shapes)
          IN  /\ shape' = moved
              /\ ret' = Returned(overlapped)
              /\ IF overlapped = FALSE
                 THEN g_shapes' = Append(g_shapes, moved) /\ pc' = "fill"
                 ELSE g_shapes' = g_shapes /\ pc' = "place"
    /\ UNCHANGED <<stretch_factor, args, out>>

(* time.time() - started > duration: both loops end *)
TimeUp ==
    /\ pc \in {"fill", "place"}
    /\ pc' = "done"
    /\ UNCHANGED <<g_shapes, shape, stretch_factor, ret, args, out>>

Next == FillCanvas \/ PlaceARandomShape \/ TimeUp

Spec == Init /\ [][Next]_vars

-----------------------------------------------------------------------------
(* v1.py *)

BOX_SEPARATE == 0
BOX_OVERLAP == 1
BOX_A_INSIDE_B == 2
BOX_B_INSIDE_A == 3

CIRCLE_SEPARATE == 0
CIRCLE_OVERLAP == 1
CIRCLE_A_INSIDE_B == 2
CIRCLE_B_INSIDE_A == 3

base_width == 30
base_height == 30

(* l <= c * sqrt(p), for integers l, c > 0, p >= 0 (l^2 <= c^2 * p without   *)
(* forming l^2)                                                              *)
LeScaledRoot(l, c, p) ==
    \/ l <= 0
    \/ LET u == l \div c
           v == l % c
       IN  p - u * u >= (2 * c * u * v + v * v + c * c - 1) \div (c * c)

(* l >= c * sqrt(p), for integers l, c > 0, p >= 0 *)
GeScaledRoot(l, c, p) ==
    /\ l >= 0
    /\ LET u == l \div c
           v == l % c
       IN  p - u * u <= (2 * c * u * v + v * v) \div (c * c)

get_squared_distance(point1, point2) ==
    (point1[1] - point2[1]) * (point1[1] - point2[1])
        + (point1[2] - point2[2]) * (point1[2] - point2[2])

get_shape_center(s) == <<s.x, s.y>>

get_shape_dimensions(s) == <<base_width * s.stretch_len, base_height * s.stretch_wid>>

(* ((width/2)**2 + (height/2)**2)**0.5, carried as its square; width and     *)
(* height are even                                                           *)
get_shape_radius(s) ==
    LET width == get_shape_dimensions(s)[1]
        height == get_shape_dimensions(s)[2]
    IN  (width \div 2) * (width \div 2) + (height \div 2) * (height \div 2)

calculate_bounds_from_center(x, y, width, height) ==
    LET half_width == width \div 2
        half_height == height \div 2
        left == x - half_width
        right == x + half_width
        bottom == y - half_height
        top == y + half_height
    IN  <<left, right, bottom, top>>

get_shape_bounds(s) ==
    LET width == get_shape_dimensions(s)[1]
        height == get_shape_dimensions(s)[2]
    IN  calculate_bounds_from_center(s.x, s.y, width, height)

\* mutant: no 1.5 safety factor (manhattan_distance <= max_distance)
are_centers_close_enough_no_margin(center, radius, s) ==
    LET manhattan_distance == Abs(center[1] - s.x) + Abs(center[2] - s.y)
    IN  LeScaledRoot(manhattan_distance * manhattan_distance
                        - (radius + get_shape_radius(s)),
                     2, radius * get_shape_radius(s))

(* manhattan_distance <= 1.5 * (radius + shape2_radius); the radii are       *)
(* sqrt(radius), sqrt(shape2_radius): 2m <= 3(r1 + r2) iff                   *)
(* 4m^2 - 9(R1 + R2) <= 18 sqrt(R1 R2)                                       *)
are_centers_close_enough(center, radius, s) ==
    LET x2 == s.x
        y2 == s.y
        x1 == center[1]
        y1 == center[2]
        shape2_radius == get_shape_radius(s)
        manhattan_distance == Abs(x1 - x2) + Abs(y1 - y2)
    IN  LeScaledRoot(4 * manhattan_distance * manhattan_distance
                        - 9 * (radius + shape2_radius),
                     18, radius * shape2_radius)

\* mutant: touching edges count as separate
is_horizontally_separate_touching(left_a, right_a, left_b, right_b) ==
    right_a <= left_b \/ right_b <= left_a

\* mutant: only "a left of b" is tested
is_horizontally_separate_oneway(left_a, right_a, left_b, right_b) ==
    right_a < left_b

is_horizontally_separate(left_a, right_a, left_b, right_b) ==
    right_a < left_b \/ right_b < left_a

\* mutant: touching edges count as separate
is_vertically_separate_touching(bottom_a, top_a, bottom_b, top_b) ==
    top_a <= bottom_b \/ top_b <= bottom_a

is_vertically_separate(bottom_a, top_a, bottom_b, top_b) ==
    top_a < bottom_b \/ top_b < bottom_a

\* mutant: the top edge is not compared
is_box_inside_another_no_top(inner, outer) ==
    inner[1] >= outer[1] /\ inner[2] <= outer[2] /\ inner[3] >= outer[3]

\* mutant: inner and outer exchanged
is_box_inside_another_swapped(inner, outer) ==
    outer[1] >= inner[1] /\ outer[2] <= inner[2] /\
    outer[3] >= inner[3] /\ outer[4] <= inner[4]

is_box_inside_another(inner, outer) ==
    LET left_in == inner[1]
        right_in == inner[2]
        bottom_in == inner[3]
        top_in == inner[4]
        left_out == outer[1]
        right_out == outer[2]
        bottom_out == outer[3]
        top_out == outer[4]
    IN  left_in >= left_out /\ right_in <= right_out /\
        bottom_in >= bottom_out /\ top_in <= top_out

v1_box_check(box_a, box_b) ==
    LET left_a == box_a[1]
        right_a == box_a[2]
        bottom_a == box_a[3]
        top_a == box_a[4]
        left_b == box_b[1]
        right_b == box_b[2]
        bottom_b == box_b[3]
        top_b == box_b[4]
    IN  IF is_horizontally_separate(left_a, right_a, left_b, right_b) \/
           is_vertically_separate(bottom_a, top_a, bottom_b, top_b)
        THEN BOX_SEPARATE
        ELSE IF is_box_inside_another(<<left_a, right_a, bottom_a, top_a>>,
                                      <<left_b, right_b, bottom_b, top_b>>)
        THEN BOX_A_INSIDE_B
        ELSE IF is_box_inside_another(<<left_b, right_b, bottom_b, top_b>>,
                                      <<left_a, right_a, bottom_a, top_a>>)
        THEN BOX_B_INSIDE_A
        ELSE BOX_OVERLAP

is_bounds_overlap(bounds1, bounds2) ==
    LET relationship == v1_box_check(bounds1, bounds2)
    IN  \/ relationship = BOX_OVERLAP
        \/ relationship = BOX_A_INSIDE_B
        \/ relationship = BOX_B_INSIDE_A

\* mutant: touching circles count as separate (squared_distance >= ...)
get_circle_relationship_touching_apart(center1, radius1, center2, radius2) ==
    LET squared_distance == get_squared_distance(center1, center2)
    IN  IF GeScaledRoot(squared_distance - radius1 - radius2, 2, radius1 * radius2)
        THEN CIRCLE_SEPARATE
        ELSE IF GeScaledRoot(radius1 + radius2 - squared_distance, 2, radius1 * radius2)
                /\ radius1 <= radius2
        THEN CIRCLE_A_INSIDE_B
        ELSE IF GeScaledRoot(radius1 + radius2 - squared_distance, 2, radius1 * radius2)
                /\ radius2 <= radius1
        THEN CIRCLE_B_INSIDE_A
        ELSE CIRCLE_OVERLAP

(* Floating point.  A radius is the double R ** 0.5, and (radius1 +         *)
(* radius2)**2 and (radius2 - radius1)**2 are rounded.  The rounding can     *)
(* only change a comparison with squared_distance (an integer) when the      *)
(* exact value is that integer, which needs R1 * R2 to be a perfect square.  *)
(* For those pairs, among the squared radii this model draws (stretch        *)
(* factors up to 4; radii 0..4; half-diagonals of squares of half-width      *)
(* 1..3 and 10..12), the two sets below list the pairs (smaller first) for   *)
(* which the rounded value lies below the exact one in IEEE-754 binary64.    *)
SumRoundsBelowPairs ==
    {<<0, 18>>, <<0, 242>>, <<0, 288>>, <<2, 18>>, <<2, 242>>, <<18, 18>>,
     <<18, 288>>, <<200, 242>>, <<200, 288>>, <<242, 242>>, <<288, 288>>,
     <<1125, 1125>>, <<2250, 2250>>, <<4500, 4500>>}

DifferenceRoundsBelowPairs ==
    {<<0, 18>>, <<0, 242>>, <<0, 288>>, <<2, 18>>, <<2, 242>>, <<2, 288>>,
     <<8, 18>>, <<8, 288>>, <<18, 242>>, <<200, 242>>, <<200, 288>>,
     <<242, 288>>, <<1125, 4500>>}

\* (radius1 + radius2)**2 evaluates below (sqrt(R1) + sqrt(R2))^2
sum_rounds_below(radius1, radius2) ==
    <<Min2(radius1, radius2), Max2(radius1, radius2)>> \in SumRoundsBelowPairs

\* (radius2 - radius1)**2 evaluates below (sqrt(R2) - sqrt(R1))^2
difference_rounds_below(radius1, radius2) ==
    <<Min2(radius1, radius2), Max2(radius1, radius2)>> \in DifferenceRoundsBelowPairs

(* squared_distance > (radius1 + radius2)**2, radius1 and radius2 being the  *)
(* squares R1, R2 of the radii:                                              *)
(*   d2 > (r1 + r2)^2  iff  d2 - R1 - R2 > 2 sqrt(R1 R2),                     *)
(* and at d2 = (r1 + r2)^2 the rounding of the right-hand side decides       *)
farther_than_radii(squared_distance, radius1, radius2) ==
    LET excess == squared_distance - radius1 - radius2
    IN  \/ ~LeScaledRoot(excess, 2, radius1 * radius2)
        \/ /\ GeScaledRoot(excess, 2, radius1 * radius2)
           /\ sum_rounds_below(radius1, radius2)

(* squared_distance <= (radius2 - radius1)**2:                               *)
(*   d2 <= (r2 - r1)^2  iff  R1 + R2 - d2 >= 2 sqrt(R1 R2),                   *)
(* and at d2 = (r2 - r1)^2 the rounding of the right-hand side decides       *)
within_radius_difference(squared_distance, radius1, radius2) ==
    LET slack == radius1 + radius2 - squared_distance
    IN  /\ GeScaledRoot(slack, 2, radius1 * radius2)
        /\ ~(/\ LeScaledRoot(slack, 2, radius1 * radius2)
             /\ difference_rounds_below(radius1, radius2))

(* radius1, radius2 are the squares R1, R2 of the radii; r1 <= r2 iff        *)
(* R1 <= R2                                                                  *)
get_circle_relationship(center1, radius1, center2, radius2) ==
    LET squared_distance == get_squared_distance(center1, center2)
    IN  IF farther_than_radii(squared_distance, radius1, radius2)
        THEN CIRCLE_SEPARATE
        ELSE IF within_radius_difference(squared_distance, radius1, radius2)
                /\ radius1 <= radius2
        THEN CIRCLE_A_INSIDE_B
        ELSE IF within_radius_difference(squared_distance, radius1, radius2)
                /\ radius2 <= radius1
        THEN CIRCLE_B_INSIDE_A
        ELSE CIRCLE_OVERLAP

(* `shape in shapes`: some element is the same turtle *)
InShapes(s, shapes) == \E i \in 1..Len(shapes) : shapes[i].id = s.id

(* One iteration of the loop over shapes: TRUE when the loop returns True    *)
(* at existing_shape.                                                        *)
v1_pair_collides(shape_center, shape_radius, shape_bounds, existing_shape) ==
    /\ are_centers_close_enough(shape_center, shape_radius, existing_shape)
    /\ get_circle_relationship(shape_center, shape_radius,
                               get_shape_center(existing_shape),
                               get_shape_radius(existing_shape)) # CIRCLE_SEPARATE
    /\ v1_box_check(shape_bounds, get_shape_bounds(existing_shape)) # BOX_SEPARATE

v1_is_shape_overlapped_any(s, shapes) ==
    IF shapes = <<>> \/ InShapes(s, shapes)
    THEN FALSE
    ELSE LET shape_center == get_shape_center(s)
             shape_radius == get_shape_radius(s)
             shape_bounds == get_shape_bounds(s)
         IN  \E i \in 1..Len(shapes) :
                 v1_pair_collides(shape_center, shape_radius, shape_bounds, shapes[i])

-----------------------------------------------------------------------------
(* v1.py: the placement run.  The loops are those of main.py; the verdict    *)
(* is v1.py's is_shape_overlapped_any, and the grid reaches far enough      *)
(* along x for two shapes of the smallest stretch to lie apart.  v1.py       *)
(* never reads a shape's polygon, so the run draws one catalogue name.       *)

v1_shapes == {"square"}

v1_g_range_x == {XY_STEP * i : i \in 0..PairGrid}

v1_g_range_y == {XY_STEP * i : i \in 0..MaxGrid}

InitV1 ==
    /\ g_shapes = <<>>
    /\ shape = NoShape
    /\ stretch_factor = MIN_STRETCH
    /\ ret = NoRet
    /\ pc = "v1_fill"
    /\ args = NoArgs
    /\ out = NoOut

(* v1.py fill_canvas_with_random_shapes: one turn of its loop up to the      *)
(* call of place_a_random_shape                                              *)
V1FillCanvas ==
    /\ pc = "v1_fill"
    /\ Len(g_shapes) < MaxShapes
    /\ \E name \in v1_shapes :
          shape' = create_shape(Len(g_shapes) + 1, name, stretch_factor, stretch_factor)
    /\ ret' = NoRet
    /\ pc' = "v1_place"
    /\ UNCHANGED <<g_shapes, stretch_factor, args, out>>

(* place_a_random_shape without the test of its if: the shape is appended   *)
(* wherever it lands                                                         *)
V1PlaceARandomShape_untested ==
    /\ pc = "v1_place"
    /\ \E x \in v1_g_range_x, y \in v1_g_range_y :
          LET moved == goto(shape, x, y)
          IN  /\ shape' = moved
              /\ ret' = Returned(v1_is_shape_overlapped_any(moved, g_shapes))
              /\ g_shapes' = Append(g_shapes, moved)
              /\ pc' = "v1_fill"
    /\ UNCHANGED <<stretch_factor, args, out>>

(* v1.py place_a_random_shape: one turn of its loop *)
V1PlaceARandomShape ==
    /\ pc = "v1_place"
    /\ \E x \in v1_g_range_x, y \in v1_g_range_y :
          LET moved == goto(shape, x, y)
              overlapped == v1_is_shape_overlapped_any(moved, g_shapes)
          IN  /\ shape' = moved
              /\ ret' = Returned(overlapped)
              /\ IF overlapped = FALSE
                 THEN g_shapes' = Append(g_shapes, moved) /\ pc' = "v1_fill"
                 ELSE g_shapes' = g_shapes /\ pc' = "v1_place"
    /\ UNCHANGED <<stretch_factor, args, out>>

(* time.time() - started > duration: both loops end *)
V1TimeUp ==
    /\ pc \in {"v1_fill", "v1_place"}
    /\ pc' = "done"
    /\ UNCHANGED <<g_shapes, shape, stretch_factor, ret, args, out>>

NextV1 == V1FillCanvas \/ V1PlaceARandomShape \/ V1TimeUp

SpecV1 == InitV1 /\ [][NextV1]_vars

(* A run of either program with the smallest stretch factor *)
InitRuns == (Init /\ stretch_factor = MIN_STRETCH) \/ InitV1

NextRuns == Next \/ NextV1

SpecRuns == InitRuns /\ [][NextRuns]_vars

-----------------------------------------------------------------------------
(* bounding.py *)

base_size == 20

(* ShapeSimulator(stretch_wid, stretch_len) moved by goto *)
ShapeSimulator(stretch_wid, stretch_len, pos) ==
    [stretch_wid |-> stretch_wid, stretch_len |-> stretch_len,
     x |-> pos[1], y |-> pos[2]]

(* (top, right, bottom, left); width and height are even *)
get_bounding_box(s) ==
    LET width == s.stretch_len * base_size
        height == s.stretch_wid * base_size
        left == s.x - width \div 2
        right == s.x + width \div 2
        top == s.y + height \div 2
        bottom == s.y - height \div 2
    IN  <<top, right, bottom, left>>

\* mutant: boxes that only touch count as apart
is_overlap_touching_apart(shape1, shape2) ==
    LET box1 == get_bounding_box(shape1)
        box2 == get_bounding_box(shape2)
    IN  IF box1[2] <= box2[4] \/ box1[4] >= box2[2]
        THEN FALSE
        ELSE IF box1[3] >= box2[1] \/ box1[1] <= box2[3]
        THEN FALSE
        ELSE TRUE

is_overlap(shape1, shape2) ==
    LET box1 == get_bounding_box(shape1)
        box2 == get_bounding_box(shape2)
    IN  IF box1[2] < box2[4] \/ box1[4] > box2[2]
        THEN FALSE
        ELSE IF box1[3] > box2[1] \/ box1[1] < box2[3]
        THEN FALSE
        ELSE TRUE

-----------------------------------------------------------------------------
(* Direct calls on two shapes a and b (two distinct turtles): a at the       *)
(* origin, b at a grid position, each with any catalogue polygon and any     *)
(* stretch factors.                                                         *)

Stretches == MIN_STRETCH..MaxStretch

PairPositions == {XY_STEP * i : i \in 0..PairGrid}

PairArgs(positions) ==
    {[kind |-> "shapes",
      a |-> [id |-> 1, name |-> na, stretch_wid |-> wa, stretch_len |-> la,
             x |-> 0, y |-> 0],
      b |-> [id |-> 2, name |-> nb, stretch_wid |-> wb, stretch_len |-> lb,
             x |-> x, y |-> y]] :
        na \in ShapeNames, wa \in Stretches, la \in Stretches,
        nb \in ShapeNames, wb \in Stretches, lb \in Stretches,
        x \in positions, y \in positions}

InitPair ==
    /\ g_shapes = <<>>
    /\ shape = NoShape
    /\ stretch_factor = MIN_STRETCH
    /\ ret = NoRet
    /\ pc = "call"
    /\ args \in PairArgs(PairPositions)
    /\ out = NoOut

(* v1.py: the three tiers on (a, b) and on (b, a), and the scene query with  *)
(* scenes [b], [a] and [a, b]                                               *)
CallV1 ==
    /\ pc = "call"
    /\ LET a == args.a
           b == args.b
       IN  out' = [kind |-> "v1",
                   close_ab |-> are_centers_close_enough(get_shape_center(a),
                                                         get_shape_radius(a), b),
                   close_ba |-> are_centers_close_enough(get_shape_center(b),
                                                         get_shape_radius(b), a),
                   circle_ab |-> get_circle_relationship(
                                     get_shape_center(a), get_shape_radius(a),
                                     get_shape_center(b), get_shape_radius(b)),
                   circle_ba |-> get_circle_relationship(
                                     get_shape_center(b), get_shape_radius(b),
                                     get_shape_center(a), get_shape_radius(a)),
                   box_ab |-> v1_box_check(get_shape_bounds(a), get_shape_bounds(b)),
                   box_ba |-> v1_box_check(get_shape_bounds(b), get_shape_bounds(a)),
                   any_ab |-> v1_is_shape_overlapped_any(a, <<b>>),
                   any_ba |-> v1_is_shape_overlapped_any(b, <<a>>),
                   any_self |-> v1_is_shape_overlapped_any(a, <<a, b>>)]
    /\ pc' = "done"
    /\ UNCHANGED <<g_shapes, shape, stretch_factor, ret, args>>

(* main.py: the scene query with scenes [b], [a] and [a, b] *)
CallMain ==
    /\ pc = "call"
    /\ LET a == args.a
           b == args.b
       IN  out' = [kind |-> "main",
                   any_ab |-> main_is_shape_overlapped_any(a, <<b>>),
                   any_ba |-> main_is_shape_overlapped_any(b, <<a>>),
                   any_self |-> main_is_shape_overlapped_any(a, <<a, b>>)]
    /\ pc' = "done"
    /\ UNCHANGED <<g_shapes, shape, stretch_factor, ret, args>>

(* main.py: box_check, sat_check and contains on two polygons, here the      *)
(* polygons of a and b as drawn on the canvas                                *)
CallPolygons ==
    /\ pc = "call"
    /\ LET poly1 == worldPolygon(args.a)
           poly2 == worldPolygon(args.b)
       IN  out' = [kind |-> "polygons",
                   box |-> main_box_check(bbox_of(poly1), bbox_of(poly2)),
                   sat |-> sat_check(poly1, poly2),
                   contains_12 |-> contains(poly1, poly2),
                   contains_21 |-> contains(poly2, poly1)]
    /\ pc' = "done"
    /\ UNCHANGED <<g_shapes, shape, stretch_factor, ret, args>>

NextPair == CallV1 \/ CallMain \/ CallPolygons

SpecPair == InitPair /\ [][NextPair]_vars

-----------------------------------------------------------------------------
(* Direct calls of the three v1.py tiers on two shapes, the second far       *)
(* enough from the first for the largest boxes of the model to touch at a    *)
(* corner.                                                                   *)

TierPositions == {XY_STEP * i : i \in 0..TierGrid}

InitTiers ==
    /\ g_shapes = <<>>
    /\ shape = NoShape
    /\ stretch_factor = MIN_STRETCH
    /\ ret = NoRet
    /\ pc = "call"
    /\ args \in PairArgs(TierPositions)
    /\ out = NoOut

NextTiers == CallV1

SpecTiers == InitTiers /\ [][NextTiers]_vars

-----------------------------------------------------------------------------
(* Direct calls of v1.py box_check on two boxes (left, right, bottom, top)   *)
(* and of get_circle_relationship on two circles.                            *)

Coords == (-MaxCoord)..MaxCoord

SmallSquare == <<-SmallHalf, SmallHalf, -SmallHalf, SmallHalf>>

LargeSquare == <<-LargeHalf, LargeHalf, -LargeHalf, LargeHalf>>

Boxes ==
    {bx \in Coords \X Coords \X Coords \X Coords : bx[1] <= bx[2] /\ bx[3] <= bx[4]}
        \cup {SmallSquare, LargeSquare}

(* squares of the radii: the integers 0..MaxRadius and the half-diagonals    *)
(* of the two squares                                                        *)
RadiusSquares ==
    {r * r : r \in 0..MaxRadius}
        \cup {2 * SmallHalf * SmallHalf, 2 * LargeHalf * LargeHalf}

ExtentArgs(boxes, radii) ==
    {[kind |-> "boxes", box_a |-> a, box_b |-> b] : a \in boxes, b \in boxes}
        \cup
    {[kind |-> "circles", center1 |-> c1, radius1 |-> r1,
      center2 |-> c2, radius2 |-> r2] :
        c1 \in Coords \X Coords, r1 \in radii,
        c2 \in Coords \X Coords, r2 \in radii}

InitExtents ==
    /\ g_shapes = <<>>
    /\ shape = NoShape
    /\ stretch_factor = MIN_STRETCH
    /\ ret = NoRet
    /\ pc = "call"
    /\ args \in ExtentArgs(Boxes, RadiusSquares)
    /\ out = NoOut

CallBoxCheck ==
    /\ pc = "call"
    /\ args.kind = "boxes"
    /\ out' = [kind |-> "boxes",
               ab |-> v1_box_check(args.box_a, args.box_b),
               ba |-> v1_box_check(args.box_b, args.box_a)]
    /\ pc' = "done"
    /\ UNCHANGED <<g_shapes, shape, stretch_factor, ret, args>>

CallCircleRelationship ==
    /\ pc = "call"
    /\ args.kind = "circles"
    /\ out' = [kind |-> "circles",
               ab |-> get_circle_relationship(args.center1, args.radius1,
                                              args.center2, args.radius2),
               ba |-> get_circle_relationship(args.center2, args.radius2,
                                              args.center1, args.radius1)]
    /\ pc' = "done"
    /\ UNCHANGED <<g_shapes, shape, stretch_factor, ret, args>>

NextExtents == CallBoxCheck \/ CallCircleRelationship

SpecExtents == InitExtents /\ [][NextExtents]_vars

-----------------------------------------------------------------------------
(* bounding.py: test_case(pos1, pos2, stretch1, stretch2, expected) with     *)
(* the coordinates used by the test cases of __main__                        *)

TestCoords == {0, 10, 15, 25, 30, 50}

TestArgs(coords) ==
    {[kind |-> "test_case", pos1 |-> p1, pos2 |-> p2, stretch1 |-> s1, stretch2 |-> s2] :
        p1 \in coords \X coords, p2 \in coords \X coords,
        s1 \in Stretches \X Stretches, s2 \in Stretches \X Stretches}

InitBounding ==
    /\ g_shapes = <<>>
    /\ shape = NoShape
    /\ stretch_factor = MIN_STRETCH
    /\ ret = NoRet
    /\ pc = "call"
    /\ args \in TestArgs(TestCoords)
    /\ out = NoOut

test_case ==
    /\ pc = "call"
    /\ LET s1 == ShapeSimulator(args.stretch1[1], args.stretch1[2], args.pos1)
           s2 == ShapeSimulator(args.stretch2[1], args.stretch2[2], args.pos2)
       IN  out' = [kind |-> "test_case", actual |-> is_overlap(s1, s2)]
    /\ pc' = "done"
    /\ UNCHANGED <<g_shapes, shape, stretch_factor, ret, args>>

(* The box (top, right, bottom, left) of bounding.py as main.py box_check    *)
(* takes it: ((x_min, x_max), (y_min, y_max))                                *)
AsBoundingBox(bx) == << <<bx[4], bx[2]>>, <<bx[3], bx[1]>> >>

(* The same box as v1.py box_check takes it: (left, right, bottom, top)      *)
AsBounds(bx) == <<bx[4], bx[2], bx[3], bx[1]>>

(* The three box tests called on the boxes of the same two shapes *)
CallBoxChecks ==
    /\ pc = "call"
    /\ LET s1 == ShapeSimulator(args.stretch1[1], args.stretch1[2], args.pos1)
           s2 == ShapeSimulator(args.stretch2[1], args.stretch2[2], args.pos2)
           box1 == get_bounding_box(s1)
           box2 == get_bounding_box(s2)
       IN  out' = [kind |-> "box_checks",
                   box1 |-> box1,
                   box2 |-> box2,
                   is_overlap |-> is_overlap(s1, s2),
                   box_check |-> main_box_check(AsBoundingBox(box1), AsBoundingBox(box2)),
                   v1_box_check |-> v1_box_check(AsBounds(box1), AsBounds(box2)),
                   is_bounds_overlap |-> is_bounds_overlap(AsBounds(box1), AsBounds(box2))]
    /\ pc' = "done"
    /\ UNCHANGED <<g_shapes, shape, stretch_factor, ret, args>>

NextBounding == test_case \/ CallBoxChecks

SpecBounding == InitBounding /\ [][NextBounding]_vars

-----------------------------------------------------------------------------
(* Direct calls of main.py is_separating_axis, sat_check, normalize and      *)
(* ray_check on two polygons: a catalogue polygon at the origin and one at   *)
(* a grid position, both with the run's stretch factor, each as registered   *)
(* or with its second vertex repeated (a zero-length edge).                  *)

Duplicated(poly) == <<poly[1], poly[2], poly[2]>> \o SubSeq(poly, 3, Len(poly))

PolygonAt(name, s, x, y, dup) ==
    LET p == worldPolygon([id |-> 1, name |-> name, stretch_wid |-> s,
                           stretch_len |-> s, x |-> x, y |-> y])
    IN  IF dup THEN Duplicated(p) ELSE p

PolygonArgs(positions) ==
    {[kind |-> "polygons",
      poly1 |-> PolygonAt(n1, s, 0, 0, d1),
      poly2 |-> PolygonAt(n2, s, x, y, d2)] :
        n1 \in ShapeNames, n2 \in ShapeNames, s \in Stretches,
        d1 \in BOOLEAN, d2 \in BOOLEAN,
        x \in positions, y \in positions}

InitPolygons ==
    /\ g_shapes = <<>>
    /\ shape = NoShape
    /\ stretch_factor = MIN_STRETCH
    /\ ret = NoRet
    /\ pc = "call"
    /\ args \in PolygonArgs(PairPositions)
    /\ out = NoOut

(* is_separating_axis on one of the axes sat_check would try *)
CallIsSeparatingAxis ==
    /\ pc = "call"
    /\ LET axes == get_axes(args.poly1) \o get_axes(args.poly2)
       IN  \E i \in 1..Len(axes) :
              out' = [kind |-> "is_separating_axis", axis |-> axes[i],
                      value |-> is_separating_axis(args.poly1, args.poly2, axes[i])]
    /\ pc' = "done"
    /\ UNCHANGED <<g_shapes, shape, stretch_factor, ret, args>>

CallSatCheck ==
    /\ pc = "call"
    /\ out' = [kind |-> "sat_check", value |-> sat_check(args.poly1, args.poly2)]
    /\ pc' = "done"
    /\ UNCHANGED <<g_shapes, shape, stretch_factor, ret, args>>

(* normalize on the normal of one edge, as get_axes calls it *)
CallNormalize ==
    /\ pc = "call"
    /\ LET edges == get_edges(args.poly1)
       IN  \E i \in 1..Len(edges) :
              LET vector == <<-(edges[i][2][2] - edges[i][1][2]),
                              edges[i][2][1] - edges[i][1][1]>>
              IN  out' = [kind |-> "normalize", vector |-> vector,
                          value |-> normalize(vector)]
    /\ pc' = "done"
    /\ UNCHANGED <<g_shapes, shape, stretch_factor, ret, args>>

\* mutant: the crossing is computed for every edge
ray_check_divisors_every_edge(point, polygon) ==
    {polygon[(i % Len(polygon)) + 1][2] - polygon[i][2] : i \in 1..Len(polygon)}

(* The divisors (y2 - y1) of the edges for which ray_check computes          *)
(* x_intersect: the edges not skipped by `continue`.                         *)
ray_check_divisors(point, polygon) ==
    LET y == point[2]
        crossed == {i \in 1..Len(polygon) :
                       LET y1 == polygon[i][2]
                           y2 == polygon[(i % Len(polygon)) + 1][2]
                       IN  ~((y1 > y) = (y2 > y))}
    IN  {polygon[(i % Len(polygon)) + 1][2] - polygon[i][2] : i \in crossed}

(* ray_check on a vertex of one polygon against the other, as contains       *)
(* calls it                                                                  *)
CallRayCheck ==
    /\ pc = "call"
    /\ \E polygon \in {args.poly1, args.poly2}, other \in {args.poly1, args.poly2} :
          \E i \in 1..Len(other) :
              out' = [kind |-> "ray_check", point |-> other[i], polygon |-> polygon,
                      value |-> ray_check(other[i], polygon),
                      divisors |-> ray_check_divisors(other[i], polygon)]
    /\ pc' = "done"
    /\ UNCHANGED <<g_shapes, shape, stretch_factor, ret, args>>

CallContainCheck ==
    /\ pc = "call"
    /\ out' = [kind |-> "contain_check",
               value |-> contain_check(args.poly1, args.poly2)]
    /\ pc' = "done"
    /\ UNCHANGED <<g_shapes, shape, stretch_factor, ret, args>>

NextPolygons ==
    \/ CallIsSeparatingAxis
    \/ CallSatCheck
    \/ CallNormalize
    \/ CallRayCheck
    \/ CallContainCheck

SpecPolygons == InitPolygons /\ [][NextPolygons]_vars

-----------------------------------------------------------------------------
(* is_shape_overlapped_any(shape, shapes) step by step: the loop over the    *)
(* scene with one action per test of the loop body.  g_shapes is the scene,  *)
(* shape the candidate, args.i the loop position, and out the tests          *)
(* evaluated so far, in order: [i, tier, separate] for member i, where       *)
(* separate says that the test sent the loop on to the next member.          *)

ScanMembers(positions) ==
    {[id |-> 2, name |-> n, stretch_wid |-> MIN_STRETCH, stretch_len |-> MIN_STRETCH,
      x |-> x, y |-> y] :
        n \in ShapeNames, x \in positions, y \in positions}

ScanCandidates ==
    {[id |-> 1, name |-> n, stretch_wid |-> MIN_STRETCH, stretch_len |-> MIN_STRETCH,
      x |-> 0, y |-> 0] : n \in ShapeNames}

\* scenes of up to two members other than candidate c, or holding c itself
ScanScenes(c) ==
    LET members == ScanMembers(PairPositions)
    IN  {<<>>, <<c>>}
            \cup {<<m>> : m \in members}
            \cup {<<c, m>> : m \in members}
            \cup {<<m1, [m2 EXCEPT !.id = 3]>> : m1 \in members, m2 \in members}

InitScan ==
    /\ shape \in ScanCandidates
    /\ g_shapes \in ScanScenes(shape)
    /\ stretch_factor = MIN_STRETCH
    /\ ret = NoRet
    /\ pc = "enter"
    /\ args \in {[kind |-> "scan", impl |-> impl, i |-> 1] : impl \in {"v1", "main"}}
    /\ out = <<>>

\* `continue`, or the end of the loop and `return False`
ScanContinue(trace, first_test) ==
    /\ out' = trace
    /\ IF args.i < Len(g_shapes)
       THEN args' = [args EXCEPT !.i = args.i + 1] /\ pc' = first_test /\ ret' = ret
       ELSE args' = args /\ pc' = "done" /\ ret' = Returned(FALSE)
    /\ UNCHANGED <<g_shapes, shape, stretch_factor>>

\* `return value`
ScanReturn(trace, value) ==
    /\ out' = trace
    /\ ret' = Returned(value)
    /\ pc' = "done"
    /\ UNCHANGED <<g_shapes, shape, stretch_factor, args>>

Tested(tier, separate) == Append(out, [i |-> args.i, tier |-> tier, separate |-> separate])

(* v1.py: the edge cases before the loop *)
V1Enter ==
    /\ pc = "enter" /\ args.impl = "v1"
    /\ IF g_shapes = <<>> \/ InShapes(shape, g_shapes)
       THEN ScanReturn(out, FALSE)
       ELSE pc' = "level1" /\ UNCHANGED <<g_shapes, shape, stretch_factor, ret, args, out>>

(* v1.py LEVEL 1: quick distance check *)
V1Level1 ==
    /\ pc = "level1"
    /\ LET close == are_centers_close_enough(get_shape_center(shape),
                                             get_shape_radius(shape), g_shapes[args.i])
       IN  IF ~close
           THEN ScanContinue(Tested("manhattan", TRUE), "level1")
           ELSE /\ out' = Tested("manhattan", FALSE)
                /\ pc' = "level2"
                /\ UNCHANGED <<g_shapes, shape, stretch_factor, ret, args>>

(* v1.py LEVEL 2: circle check *)
V1Level2 ==
    /\ pc = "level2"
    /\ LET circle_relationship ==
               get_circle_relationship(get_shape_center(shape), get_shape_radius(shape),
                                       get_shape_center(g_shapes[args.i]),
                                       get_shape_radius(g_shapes[args.i]))
       IN  IF circle_relationship = CIRCLE_SEPARATE
           THEN ScanContinue(Tested("circle", TRUE), "level1")
           ELSE /\ out' = Tested("circle", FALSE)
                /\ pc' = "level3"
                /\ UNCHANGED <<g_shapes, shape, stretch_factor, ret, args>>

\* mutant: a non-separate box does not end the scan
V1Level3_scans_on ==
    /\ pc = "level3"
    /\ LET box_relationship ==
               v1_box_check(get_shape_bounds(shape), get_shape_bounds(g_shapes[args.i]))
       IN  ScanContinue(Tested("box", box_relationship = BOX_SEPARATE), "level1")

(* v1.py LEVEL 3: box check *)
V1Level3 ==
    /\ pc = "level3"
    /\ LET box_relationship ==
               v1_box_check(get_shape_bounds(shape), get_shape_bounds(g_shapes[args.i]))
       IN  IF box_relationship # BOX_SEPARATE
           THEN ScanReturn(Tested("box", FALSE), TRUE)
           ELSE ScanContinue(Tested("box", TRUE), "level1")

(* main.py: entry of the loop *)
MainEnter ==
    /\ pc = "enter" /\ args.impl = "main"
    /\ IF g_shapes = <<>>
       THEN ScanReturn(out, FALSE)
       ELSE pc' = "box_check" /\ UNCHANGED <<g_shapes, shape, stretch_factor, ret, args, out>>

(* main.py: the candidate itself is skipped; fast bounding box check *)
MainBoxCheck ==
    /\ pc = "box_check"
    /\ IF g_shapes[args.i].id = shape.id
       THEN ScanContinue(out, "box_check")
       ELSE IF main_box_check(box(shape), box(g_shapes[args.i]))
       THEN /\ out' = Tested("box_check", FALSE)
            /\ pc' = "possible_containment"
            /\ UNCHANGED <<g_shapes, shape, stretch_factor, ret, args>>
       ELSE ScanContinue(Tested("box_check", TRUE), "box_check")

possible_containment(shape_poly, other_poly) ==
    LET x1_min == SeqMin(Xs(shape_poly))
        x1_max == SeqMax(Xs(shape_poly))
        y1_min == SeqMin(Ys(shape_poly))
        y1_max == SeqMax(Ys(shape_poly))
        x2_min == SeqMin(Xs(other_poly))
        x2_max == SeqMax(Xs(other_poly))
        y2_min == SeqMin(Ys(other_poly))
        y2_max == SeqMax(Ys(other_poly))
    IN  \/ (x1_min >= x2_min /\ x1_max <= x2_max /\
            y1_min >= y2_min /\ y1_max <= y2_max)
        \/ (x2_min >= x1_min /\ x2_max <= x1_max /\
            y2_min >= y1_min /\ y2_max <= y1_max)

(* main.py: `if possible_containment:` and the containment check under it;   *)
(* the SAT check is the elif of `if possible_containment`                    *)
MainContainment ==
    /\ pc = "possible_containment"
    /\ LET shape_poly == get_shapepoly(shape)
           other_poly == get_shapepoly(g_shapes[args.i])
       IN  IF possible_containment(shape_poly, other_poly)
           THEN IF contains(shape_poly, other_poly) \/ contains(other_poly, shape_poly)
                THEN ScanReturn(Tested("contains", FALSE), TRUE)
                ELSE ScanContinue(Tested("contains", TRUE), "box_check")
           ELSE pc' = "sat_check" /\
                UNCHANGED <<g_shapes, shape, stretch_factor, ret, args, out>>

(* main.py: the SAT check *)
MainSatCheck ==
    /\ pc = "sat_check"
    /\ IF sat_check(get_shapepoly(shape), get_shapepoly(g_shapes[args.i]))
       THEN ScanReturn(Tested("sat_check", FALSE), TRUE)
       ELSE ScanContinue(Tested("sat_check", TRUE), "box_check")

NextScan ==
    \/ V1Enter \/ V1Level1 \/ V1Level2 \/ V1Level3
    \/ MainEnter \/ MainBoxCheck \/ MainContainment \/ MainSatCheck

SpecScan == InitScan /\ [][NextScan]_vars

-----------------------------------------------------------------------------
(* Geometry the claims are stated in: convex polygons as closed regions.    *)
(* Two convex polygons are disjoint iff the projections onto the normal of   *)
(* some edge of either are strictly apart.                                  *)

EdgeNormals(poly) ==
    {<<-(poly[(i % Len(poly)) + 1][2] - poly[i][2]),
       poly[(i % Len(poly)) + 1][1] - poly[i][1]>> : i \in 1..Len(poly)}
        \ {<<0, 0>>}

Dots(poly, n) == [i \in 1..Len(poly) |-> poly[i][1] * n[1] + poly[i][2] * n[2]]

\* the closed regions share a point: they touch, overlap or one holds the other
PolygonsMeet(p, q) ==
    \A n \in EdgeNormals(p) \cup EdgeNormals(q) :
        ~(SeqMax(Dots(p, n)) < SeqMin(Dots(q, n)) \/
          SeqMax(Dots(q, n)) < SeqMin(Dots(p, n)))

\* the interiors share a point
PolygonsOverlap(p, q) ==
    \A n \in EdgeNormals(p) \cup EdgeNormals(q) :
        ~(SeqMax(Dots(p, n)) <= SeqMin(Dots(q, n)) \/
          SeqMax(Dots(q, n)) <= SeqMin(Dots(p, n)))

\* the scene members other than the candidate
Others(s, shapes) == {i \in 1..Len(shapes) : shapes[i].id # s.id}

-----------------------------------------------------------------------------
(* C1: main.py - after any sequence of placement attempts no two distinct   *)
(* shapes in g_shapes have polygons that touch, overlap or lie one inside    *)
(* the other.                                                               *)
C1_PlacedShapesApart ==
    \A i, j \in 1..Len(g_shapes) :
        i # j => ~PolygonsMeet(worldPolygon(g_shapes[i]), worldPolygon(g_shapes[j]))

(* C2: main.py is_shape_overlapped_any(candidate, scene), candidate not in   *)
(* the scene, returns True whenever some member's polygon overlaps the       *)
(* candidate's and False when every member's polygon is disjoint from it.    *)
C2_VerdictMatchesGeometry ==
    ret.called =>
        /\ (\E i \in Others(shape, g_shapes) :
                PolygonsOverlap(worldPolygon(g_shapes[i]), worldPolygon(shape)))
              => ret.value = TRUE
        /\ (\A i \in Others(shape, g_shapes) :
                ~PolygonsMeet(worldPolygon(g_shapes[i]), worldPolygon(shape)))
              => ret.value = FALSE

(* C3: v1.py - two shapes of equal size whose centers are exactly one       *)
(* shape-width apart along x (one shape-height apart along y) and equal on   *)
(* the other axis collide: the pair passes the Manhattan prefilter and the   *)
(* circle check, box_check returns BOX_OVERLAP and is_shape_overlapped_any    *)
(* returns True.                                                            *)
C3_EdgesTouch ==
    /\ args.kind = "shapes"
    /\ args.a.stretch_wid = args.b.stretch_wid
    /\ args.a.stretch_len = args.b.stretch_len
    /\ \/ Abs(args.b.x - args.a.x) = get_shape_dimensions(args.a)[1] /\ args.b.y = args.a.y
       \/ Abs(args.b.y - args.a.y) = get_shape_dimensions(args.a)[2] /\ args.b.x = args.a.x

C3_TouchingShapesCollide ==
    (out.kind = "v1" /\ C3_EdgesTouch) =>
        /\ out.close_ab /\ out.close_ba
        /\ out.circle_ab # CIRCLE_SEPARATE /\ out.circle_ba # CIRCLE_SEPARATE
        /\ out.box_ab = BOX_OVERLAP /\ out.box_ba = BOX_OVERLAP
        /\ out.any_ab = TRUE /\ out.any_ba = TRUE

C3_Witness == out.kind = "v1" /\ C3_EdgesTouch /\ out.any_ab = TRUE

(* C4: when the candidate is itself a member of the scene, only the          *)
(* comparison with itself is skipped: the call on scene [a, b] with          *)
(* candidate a returns what the call on scene [b] returns (v1.py and         *)
(* main.py).                                                                *)
C4_OnlySelfIsSkipped ==
    out.kind \in {"v1", "main"} => out.any_self = out.any_ab

(* C5: the verdict is symmetric: is_shape_overlapped_any(a, [b]) equals      *)
(* is_shape_overlapped_any(b, [a]) for two distinct shapes (v1.py and        *)
(* main.py).                                                                *)
C5_VerdictSymmetric ==
    out.kind \in {"v1", "main"} => out.any_ab = out.any_ba

C5_Witness ==
    /\ out.kind = "v1"
    /\ args.a.stretch_len # args.b.stretch_len
    /\ args.b.x # args.a.x
    /\ out.any_ab = TRUE /\ out.any_ba = TRUE

(* C6 as claimed: for all boxes and all circles, equal ones included,        *)
(* box_check(a, b) = BOX_B_INSIDE_A iff box_check(b, a) = BOX_A_INSIDE_B,     *)
(* and likewise for get_circle_relationship.                                 *)
C6_ContainmentSwaps ==
    /\ out.kind = "boxes" => (out.ab = BOX_B_INSIDE_A <=> out.ba = BOX_A_INSIDE_B)
    /\ out.kind = "circles" => (out.ab = CIRCLE_B_INSIDE_A <=> out.ba = CIRCLE_A_INSIDE_B)

C6_SameExtent ==
    \/ args.kind = "boxes" /\ args.box_a = args.box_b
    \/ args.kind = "circles" /\ args.center1 = args.center2
                             /\ args.radius1 = args.radius2

(* C6 amended: containment verdicts swap with the arguments for two          *)
(* different boxes and for two different circles; for equal boxes and equal   *)
(* circles both orders return A_INSIDE_B.                                    *)
C6_ContainmentSwapsUnlessEqual ==
    /\ out.kind = "boxes" =>
          IF C6_SameExtent
          THEN out.ab = BOX_A_INSIDE_B /\ out.ba = BOX_A_INSIDE_B
          ELSE out.ab = BOX_B_INSIDE_A <=> out.ba = BOX_A_INSIDE_B
    /\ out.kind = "circles" =>
          IF C6_SameExtent
          THEN out.ab = CIRCLE_A_INSIDE_B /\ out.ba = CIRCLE_A_INSIDE_B
          ELSE out.ab = CIRCLE_B_INSIDE_A <=> out.ba = CIRCLE_A_INSIDE_B

C6_Witness ==
    /\ out.kind = "boxes"
    /\ ~C6_SameExtent
    /\ out.ab = BOX_B_INSIDE_A /\ out.ba = BOX_A_INSIDE_B

C7_SmallThenLarge ==
    \/ args.kind = "boxes" /\ args.box_a = SmallSquare /\ args.box_b = LargeSquare
    \/ args.kind = "circles" /\ args.center1 = <<0, 0>> /\ args.center2 = <<0, 0>>
                             /\ args.radius1 = 2 * SmallHalf * SmallHalf
                             /\ args.radius2 = 2 * LargeHalf * LargeHalf

(* C7 as claimed: with A the small square and B the large one (both at the   *)
(* origin) the verdict is 'A contains B' (B_INSIDE_A), with A the large and   *)
(* B the small one it is 'B contains A' (A_INSIDE_B); never Overlapping.      *)
C7_SmallContainsLarge ==
    /\ (out.kind = "boxes" /\ C7_SmallThenLarge) =>
          out.ab = BOX_B_INSIDE_A /\ out.ba = BOX_A_INSIDE_B
    /\ (out.kind = "circles" /\ C7_SmallThenLarge) =>
          out.ab = CIRCLE_B_INSIDE_A /\ out.ba = CIRCLE_A_INSIDE_B

(* C7 amended: with A the small square and B the large one the verdict is    *)
(* 'A inside B' (A_INSIDE_B, B contains A), with A the large and B the small  *)
(* one it is 'B inside A' (B_INSIDE_A, A contains B); never Overlapping.      *)
C7_LargeContainsSmall ==
    /\ (out.kind = "boxes" /\ C7_SmallThenLarge) =>
          out.ab = BOX_A_INSIDE_B /\ out.ba = BOX_B_INSIDE_A
    /\ (out.kind = "circles" /\ C7_SmallThenLarge) =>
          out.ab = CIRCLE_A_INSIDE_B /\ out.ba = CIRCLE_B_INSIDE_A

C7_Witness ==
    out.kind = "boxes" /\ C7_SmallThenLarge /\ out.ab = BOX_A_INSIDE_B

(* C8: main.py - whenever box_check on the two polygons' bounding boxes      *)
(* returns False, sat_check returns False and contains is False in both      *)
(* directions.                                                              *)
C8_BroadPhaseSeparateIsFinal ==
    (out.kind = "polygons" /\ out.box = FALSE) =>
        out.sat = FALSE /\ out.contains_12 = FALSE /\ out.contains_21 = FALSE

(* C9: v1.py - the Manhattan prefilter has no false negatives: if            *)
(* are_centers_close_enough returns False, get_circle_relationship on the     *)
(* pair is CIRCLE_SEPARATE and box_check on their bounds is BOX_SEPARATE.     *)
C9_PrefilterNoFalseNegative ==
    /\ (out.kind = "v1" /\ ~out.close_ab) =>
          out.circle_ab = CIRCLE_SEPARATE /\ out.box_ab = BOX_SEPARATE
    /\ (out.kind = "v1" /\ ~out.close_ba) =>
          out.circle_ba = CIRCLE_SEPARATE /\ out.box_ba = BOX_SEPARATE

C9_Witness ==
    out.kind = "v1" /\ ~out.close_ab /\ out.circle_ab = CIRCLE_SEPARATE

(* C10: bounding.py is_overlap returns False for two default-size shapes     *)
(* (stretch (1,1), 20x20 boxes) whose centers differ by exactly 20 on both    *)
(* axes, as at (30,30) and (50,50), and for shapes apart along one axis as    *)
(* at (0,0) and (30,0).                                                      *)
C10_TestCasesApart ==
    (/\ out.kind = "test_case"
     /\ args.stretch1 = <<1, 1>> /\ args.stretch2 = <<1, 1>>) =>
        /\ (/\ Abs(args.pos1[1] - args.pos2[1]) = 20
            /\ Abs(args.pos1[2] - args.pos2[2]) = 20) => out.actual = FALSE
        /\ (/\ Abs(args.pos1[1] - args.pos2[1]) = 30
            /\ args.pos1[2] = args.pos2[2]) => out.actual = FALSE

(* C11: main.py - a candidate is never accepted while hidden inside, or      *)
(* hiding, another shape: whenever contains holds in either direction        *)
(* between the candidate's polygon and the polygon of a scene member other   *)
(* than the candidate, is_shape_overlapped_any returns True.                 *)
C11_NoHiddenShapeAccepted ==
    ret.called =>
        \A i \in Others(shape, g_shapes) :
            (\/ contains(worldPolygon(shape), worldPolygon(g_shapes[i]))
             \/ contains(worldPolygon(g_shapes[i]), worldPolygon(shape)))
                => ret.value = TRUE

\* the projection intervals of the two polygons onto the axis are disjoint
IntervalsDisjoint(poly1, poly2, axis) ==
    \/ SeqMax(Projections(poly1, axis)) < SeqMin(Projections(poly2, axis))
    \/ SeqMax(Projections(poly2, axis)) < SeqMin(Projections(poly1, axis))

\* some edge-normal axis of either polygon yields disjoint intervals
SomeAxisDisjoint(poly1, poly2) ==
    LET axes == get_axes(poly1) \o get_axes(poly2)
    IN  \E i \in 1..Len(axes) : IntervalsDisjoint(poly1, poly2, axes[i])

(* C12: main.py sat_check(poly1, poly2) returns False if some edge-normal    *)
(* axis of either polygon yields disjoint projection intervals and True if   *)
(* no axis does.                                                             *)
C12_SatCheckVerdict ==
    out.kind = "sat_check" =>
        (out.value = FALSE <=> SomeAxisDisjoint(args.poly1, args.poly2))

(* C13: main.py is_separating_axis(poly1, poly2, axis) returns True iff the  *)
(* projection intervals of the two polygons onto the axis are disjoint, and  *)
(* False when they overlap or touch.                                         *)
C13_SeparatingAxisVerdict ==
    out.kind = "is_separating_axis" =>
        (out.value = TRUE <=> IntervalsDisjoint(args.poly1, args.poly2, out.axis))

(* C18: main.py ray_check - for every point and polygon the crossing         *)
(* x-coordinate is computed only for edges whose endpoints differ in y, so   *)
(* the division by (y2 - y1) never divides by zero, also with horizontal     *)
(* edges at the point's y and zero-length edges.                             *)
C18_NoDivisionByZero ==
    out.kind = "ray_check" => 0 \notin out.divisors

\* the polygon has a horizontal edge at the point's y and a zero-length edge,
\* and ray_check divided for some edge
C18_Witness ==
    /\ out.kind = "ray_check"
    /\ \E i \in 1..Len(out.polygon) :
          /\ out.polygon[i][2] = out.point[2]
          /\ out.polygon[(i % Len(out.polygon)) + 1][2] = out.point[2]
          /\ out.polygon[(i % Len(out.polygon)) + 1][1] # out.polygon[i][1]
    /\ \E i \in 1..Len(out.polygon) :
          out.polygon[(i % Len(out.polygon)) + 1] = out.polygon[i]
    /\ out.divisors # {}

\* the polygon without the repeated vertices
RECURSIVE WithoutRepeats(_)
WithoutRepeats(poly) ==
    IF Len(poly) <= 1 THEN poly
    ELSE IF poly[1] = poly[2] THEN WithoutRepeats(Tail(poly))
    ELSE <<poly[1]>> \o WithoutRepeats(Tail(poly))

(* C19: main.py - a zero-length edge is inert: normalize returns (0, 0) for  *)
(* the zero vector, the zero axis never separates, and sat_check on a        *)
(* polygon with a repeated consecutive vertex returns the verdict it returns *)
(* on the polygon without the repeat.                                        *)
C19_ZeroLengthEdgeInert ==
    /\ (out.kind = "normalize" /\ out.vector = <<0, 0>>) =>
          out.value.x = 0 /\ out.value.y = 0
    /\ (out.kind = "is_separating_axis" /\ out.axis.x = 0 /\ out.axis.y = 0) =>
          out.value = FALSE
    /\ out.kind = "sat_check" =>
          out.value = sat_check(WithoutRepeats(args.poly1), WithoutRepeats(args.poly2))

(* C14: main.py is_shape_overlapped_any - when the bounding boxes of a pair  *)
(* overlap, one box lies within the other, and the exact containment test    *)
(* fails in both directions, the SAT test is still run on that pair and      *)
(* decides the verdict; so two identical polygons at the same position are   *)
(* reported as colliding.                                                    *)
C14_SatAfterFailedContainment ==
    args.impl = "main" =>
        /\ \A k \in 1..Len(out) :
              (out[k].tier = "contains" /\ out[k].separate) =>
                  IF k < Len(out)
                  THEN out[k + 1].i = out[k].i /\ out[k + 1].tier = "sat_check"
                  ELSE pc = "sat_check" /\ args.i = out[k].i
        /\ (/\ pc = "done"
            /\ \E i \in Others(shape, g_shapes) :
                  worldPolygon(g_shapes[i]) = worldPolygon(shape))
              => ret.value = TRUE

(* C15: v1.py is_shape_overlapped_any short-circuits: for each scene member  *)
(* the circle classification is evaluated only after the Manhattan prefilter *)
(* passed, box_check only after the circle classification was not            *)
(* CIRCLE_SEPARATE, a test that says separate sends the scan to the next     *)
(* member, and the first member with a non-separate box ends the scan with   *)
(* True without examining later members.                                     *)
C15_ShortCircuit ==
    args.impl = "v1" =>
        \A k \in 1..Len(out) :
            /\ out[k].tier = "circle" =>
                  /\ k > 1
                  /\ out[k - 1] = [i |-> out[k].i, tier |-> "manhattan", separate |-> FALSE]
            /\ out[k].tier = "box" =>
                  /\ k > 1
                  /\ out[k - 1] = [i |-> out[k].i, tier |-> "circle", separate |-> FALSE]
            /\ (out[k].separate /\ k < Len(out)) =>
                  out[k + 1].i = out[k].i + 1 /\ out[k + 1].tier = "manhattan"
            /\ (out[k].tier = "box" /\ ~out[k].separate) =>
                  k = Len(out) /\ pc = "done" /\ ret = Returned(TRUE)

\* a scene of two members whose first member collided: three tests, all on
\* member 1, and the second member, which collides as well, was not examined
C15_Witness ==
    /\ args.impl = "v1" /\ pc = "done" /\ ret = Returned(TRUE)
    /\ Len(g_shapes) = 2 /\ Len(out) = 3
    /\ out[3] = [i |-> 1, tier |-> "box", separate |-> FALSE]
    /\ v1_is_shape_overlapped_any(shape, <<g_shapes[2]>>)

\* all four edges of box inner are within or equal to those of box outer
C16_Within(inner, outer) ==
    inner[1] >= outer[1] /\ inner[2] <= outer[2] /\
    inner[3] >= outer[3] /\ inner[4] <= outer[4]

\* the x-intervals or the y-intervals of the boxes are strictly disjoint
C16_Disjoint(a, b) ==
    \/ a[2] < b[1] \/ b[2] < a[1]
    \/ a[4] < b[3] \/ b[4] < a[3]

(* C16: v1.py box_check is a total four-way classifier: BOX_SEPARATE iff the *)
(* x-intervals or the y-intervals are strictly disjoint (touching edges are  *)
(* not separate); otherwise a containment code iff all four edges of one box *)
(* are within or equal to the other's (equal boxes yield containment);       *)
(* otherwise BOX_OVERLAP.                                                    *)
C16_BoxCheckClassifies ==
    out.kind = "boxes" =>
        LET a == args.box_a
            b == args.box_b
        IN  /\ out.ab \in {BOX_SEPARATE, BOX_OVERLAP, BOX_A_INSIDE_B, BOX_B_INSIDE_A}
            /\ out.ab = BOX_SEPARATE <=> C16_Disjoint(a, b)
            /\ ~C16_Disjoint(a, b) =>
                  /\ out.ab \in {BOX_A_INSIDE_B, BOX_B_INSIDE_A}
                        <=> (C16_Within(a, b) \/ C16_Within(b, a))
                  /\ out.ab = BOX_A_INSIDE_B => C16_Within(a, b)
                  /\ out.ab = BOX_B_INSIDE_A => C16_Within(b, a)
                  /\ ~(C16_Within(a, b) \/ C16_Within(b, a)) => out.ab = BOX_OVERLAP
            /\ a = b => out.ab \in {BOX_A_INSIDE_B, BOX_B_INSIDE_A}

\* two boxes that only touch along an edge, classified BOX_OVERLAP
C16_Witness ==
    /\ out.kind = "boxes"
    /\ args.box_a[4] = args.box_b[3]
    /\ args.box_a[3] < args.box_a[4] /\ args.box_b[3] < args.box_b[4]
    /\ args.box_a[1] < args.box_a[2] /\ args.box_b[1] < args.box_b[2]
    /\ out.ab = BOX_OVERLAP

\* squared_distance - R1 - R2, to be compared with 2 r1 r2
C17_Excess ==
    get_squared_distance(args.center1, args.center2) - args.radius1 - args.radius2

\* squared_distance > (r1 + r2)^2
C17_Apart ==
    C17_Excess > 0 /\ C17_Excess * C17_Excess > 4 * args.radius1 * args.radius2

\* squared_distance = (r1 + r2)^2
C17_Touching ==
    C17_Excess >= 0 /\ C17_Excess * C17_Excess = 4 * args.radius1 * args.radius2

C20_SceneAppendOnly ==
    [][/\ \/ g_shapes' = g_shapes
          \/ g_shapes' = Append(g_shapes, shape') /\ ~InShapes(shape', g_shapes)
       /\ (/\ shape.id # 0
           /\ shape'.id = shape.id
           /\ <<shape'.x, shape'.y>> # <<shape.x, shape.y>>) => ~InShapes(shape, g_shapes)
       /\ \A i, j \in 1..Len(g_shapes') : i # j => g_shapes'[i].id # g_shapes'[j].id
       /\ \A i \in 1..Len(g_shapes') : g_shapes'[i].id = shape'.id => g_shapes'[i] = shape'
       /\ (ret'.called /\ ret'.value = TRUE) => g_shapes' = g_shapes
      ]_vars

\* two shapes were appended, the second after a placement attempt
C20_Witness ==
    /\ Len(g_shapes) = 2
    /\ g_shapes[2] = shape
    /\ g_shapes[1].id # g_shapes[2].id
    /\ ret = Returned(FALSE)

(* C21: v1.py - the circle tier is a necessary condition for the box tier:   *)
(* for two shapes whose bounding circle and bounds come from the same center *)
(* and dimensions, if get_circle_relationship returns CIRCLE_SEPARATE then   *)
(* box_check on their bounds returns BOX_SEPARATE, so is_shape_overlapped_any *)
(* returns True iff the scene member's bounds are not BOX_SEPARATE from the  *)
(* candidate's.                                                              *)
C21_CircleTierNecessary ==
    out.kind = "v1" =>
        /\ out.circle_ab = CIRCLE_SEPARATE => out.box_ab = BOX_SEPARATE
        /\ out.circle_ba = CIRCLE_SEPARATE => out.box_ba = BOX_SEPARATE
        /\ out.any_ab <=> out.box_ab # BOX_SEPARATE
        /\ out.any_ba <=> out.box_ba # BOX_SEPARATE

(* C22: v1.py - after any sequence of placement attempts, every two distinct *)
(* shapes in g_shapes have bounds for which box_check returns BOX_SEPARATE:  *)
(* the boxes of placed shapes are strictly apart on the x axis or on the y   *)
(* axis, in either order of the arguments.                                   *)
C22_PlacedBoxesSeparate ==
    \A i, j \in 1..Len(g_shapes) :
        (i # j /\ g_shapes[i].id # g_shapes[j].id) =>
            /\ v1_box_check(get_shape_bounds(g_shapes[i]),
                            get_shape_bounds(g_shapes[j])) = BOX_SEPARATE
            /\ C16_Disjoint(get_shape_bounds(g_shapes[i]),
                            get_shape_bounds(g_shapes[j]))

\* two shapes are placed and the loop of fill_canvas_with_random_shapes goes on
C22_Witness ==
    /\ Len(g_shapes) = 2
    /\ v1_box_check(get_shape_bounds(g_shapes[1]),
                    get_shape_bounds(g_shapes[2])) = BOX_SEPARATE
    /\ pc = "v1_fill"

\* some vertex of inner lies outside the bounding box of outer
C23_GateClosed(outer, inner) ==
    \E i \in 1..Len(inner) :
        \/ inner[i][1] < SeqMin(Xs(outer)) \/ inner[i][1] > SeqMax(Xs(outer))
        \/ inner[i][2] < SeqMin(Ys(outer)) \/ inner[i][2] > SeqMax(Ys(outer))

(* C23: main.py - the bounding-box gate of contain_check is sound: for all   *)
(* non-empty polygons contain_check(poly1, poly2) equals the pair            *)
(* (contains(poly1, poly2), contains(poly2, poly1)); whenever a gate         *)
(* short-circuits a component to False, contains is False there as well.     *)
C23_ContainCheckGateSound ==
    out.kind = "contain_check" =>
        /\ out.value = <<contains(args.poly1, args.poly2),
                         contains(args.poly2, args.poly1)>>
        /\ C23_GateClosed(args.poly1, args.poly2) => ~contains(args.poly1, args.poly2)
        /\ C23_GateClosed(args.poly2, args.poly1) => ~contains(args.poly2, args.poly1)

\* one gate is closed and the other is open with contains giving True
C23_Witness ==
    /\ out.kind = "contain_check"
    /\ C23_GateClosed(args.poly2, args.poly1)
    /\ ~C23_GateClosed(args.poly1, args.poly2)
    /\ out.value = <<TRUE, FALSE>>

=============================================================================
